---------------------------- MODULE Spec2Model ----------------------------
(***************************************************************************)
(* Model of transform.js: the Transform command object (constructor,       *)
(* makeInverse, apply, setAmount) and the UndoStack (push, undo, clear),   *)
(* together with the external Model the transforms act on.                 *)
(*                                                                         *)
(* JavaScript numbers are modelled as exact rationals plus the special     *)
(* values NaN, +Infinity, -Infinity and undefined, so that -1*a and 1/a    *)
(* are computed (not assumed) and a round trip can fail.                   *)
(***************************************************************************)
EXTENDS Integers, Sequences, FiniteSets, TLC

(***************************************************************************)
(* JavaScript values                                                       *)
(***************************************************************************)

RECURSIVE GCD(_, _)
\* greatest common divisor of two naturals (normalises exact quotients)
GCD(a, b) == IF b = 0 THEN a ELSE GCD(b, a % b)

Abs(n) == IF n < 0 THEN -n ELSE n

\* the rational n/d in lowest terms with a positive denominator (d # 0)
Q(n, d) ==
    LET g == GCD(Abs(n), Abs(d))
        s == IF d < 0 THEN -1 ELSE 1
    IN  [k |-> "num", n |-> (s * n) \div g, d |-> (s * d) \div g]

\* an integer as a JavaScript number
N(i) == [k |-> "num", n |-> i, d |-> 1]

NaN == [k |-> "nan", n |-> 0, d |-> 1]

\* +Infinity (s = 1) and -Infinity (s = -1)
Infinity(s) == [k |-> "inf", n |-> s, d |-> 1]

\* the value undefined (an absent argument, an unset field)
Undef == [k |-> "undef", n |-> 0, d |-> 1]

\* ToNumber on a primitive: undefined becomes NaN
ToNumber(v) == IF v.k = "undef" THEN NaN ELSE v

Sign(v) == IF v.n < 0 THEN -1 ELSE IF v.n = 0 THEN 0 ELSE 1

\* u * v on JavaScript numbers
Mul(u0, v0) ==
    LET u == ToNumber(u0)
        v == ToNumber(v0)
    IN  IF u.k = "nan" \/ v.k = "nan" THEN NaN
        ELSE IF u.k = "num" /\ v.k = "num" THEN Q(u.n * v.n, u.d * v.d)
        ELSE IF Sign(u) * Sign(v) = 0 THEN NaN
        ELSE Infinity(Sign(u) * Sign(v))

\* u + v on JavaScript numbers
Add(u0, v0) ==
    LET u == ToNumber(u0)
        v == ToNumber(v0)
    IN  IF u.k = "nan" \/ v.k = "nan" THEN NaN
        ELSE IF u.k = "num" /\ v.k = "num" THEN Q(u.n * v.d + v.n * u.d, u.d * v.d)
        ELSE IF u.k = "inf" /\ v.k = "inf" THEN (IF u.n = v.n THEN u ELSE NaN)
        ELSE IF u.k = "inf" THEN u ELSE v

\* -1 * v
Neg(v) == Mul(N(-1), v)

\* 1 / v (the sign of a zero is not tracked: 1/0 is +Infinity)
Recip(v0) ==
    LET v == ToNumber(v0)
    IN  IF v.k = "nan" THEN NaN
        ELSE IF v.k = "inf" THEN N(0)
        ELSE IF v.n = 0 THEN Infinity(1)
        ELSE Q(v.d, v.n)

\* v <= 0 (false for NaN and undefined)
LeqZero(v0) ==
    LET v == ToNumber(v0)
    IN  v.k # "nan" /\ v.n <= 0

(***************************************************************************)
(* The amount argument: <<v>> is the primitive v (a number, or undefined   *)
(* when the argument is absent), <<a0, a1, a2>> is the array [a0, a1, a2]. *)
(***************************************************************************)

Scalar(v) == <<v>>

Triple(a, b, c) == <<a, b, c>>

Absent == <<Undef>>

IsArray(amount) == Len(amount) = 3

\* amount.length: truthy for an array, undefined for a number
HasLength(amount) == IsArray(amount)

\* reading a property of amount (amount[i], amount.length) throws a
\* TypeError exactly when amount is undefined
PropertyThrows(amount) == ~IsArray(amount) /\ amount[1].k = "undef"

\* amount[i] for i in 0..2: the component of an array, undefined on a number
Index(amount, i) == IF IsArray(amount) THEN amount[i + 1] ELSE Undef

\* amount coerced to a number: an array of three elements prints as
\* "a,b,c", which is not a numeral
AsNumber(amount) == IF IsArray(amount) THEN NaN ELSE ToNumber(amount[1])

(***************************************************************************)
(* The external Model (not part of transform.js): bounding box, an         *)
(* orientation and the wireframe flag.  The orientation is a reduced word  *)
(* over the three axis rotations (the free product of the three rotation   *)
(* groups), so rotations about different axes never commute and a          *)
(* sequence of rotations restores the orientation only when it cancels.    *)
(***************************************************************************)

AxisIx(axis) == CASE axis = "x" -> 1 [] axis = "y" -> 2 [] axis = "z" -> 3

\* model.xmin, model.ymin, model.zmin
ModelMin(m, axis) == m.min[AxisIx(axis)]

\* model.getCenterx(), getCentery(), getCenterz()
ModelCenter(m, axis) ==
    Mul(Q(1, 2), Add(m.min[AxisIx(axis)], m.max[AxisIx(axis)]))

\* model.translate(axis, amount): shifts the bounding box along the axis
ModelTranslate(m, axis, v) ==
    [m EXCEPT !.min[AxisIx(axis)] = Add(@, v), !.max[AxisIx(axis)] = Add(@, v)]

\* model.scale(axis, amount): scales the bounding box along the axis
ModelScale(m, axis, v) ==
    [m EXCEPT !.min[AxisIx(axis)] = Mul(@, v), !.max[AxisIx(axis)] = Mul(@, v)]

\* model.rotate(axis, amount): composes a rotation about the axis; two
\* consecutive rotations about the same axis add up, a zero rotation vanishes
ModelRotate(m, axis, v) ==
    LET w == m.orient
        n == Len(w)
        merge == n > 0 /\ w[n].axis = axis
        amt == IF merge THEN Add(w[n].amt, v) ELSE ToNumber(v)
        rest == IF merge THEN SubSeq(w, 1, n - 1) ELSE w
    IN  [m EXCEPT !.orient = IF amt = N(0) THEN rest
                             ELSE Append(rest, [axis |-> axis, amt |-> amt])]

\* model.toggleWireframe()
ModelToggleWireframe(m) == [m EXCEPT !.wireframe = ~@]

\* one invocation of a Model primitive, as recorded by apply()
ModelCall(m, c) ==
    CASE c.prim = "translate" -> ModelTranslate(m, c.axis, AsNumber(c.amt))
      [] c.prim = "scale" -> ModelScale(m, c.axis, AsNumber(c.amt))
      [] c.prim = "rotate" -> ModelRotate(m, c.axis, AsNumber(c.amt))
      [] c.prim = "toggleWireframe" -> ModelToggleWireframe(m)

RECURSIVE ModelRun(_, _)
\* the Model after a sequence of primitive invocations
ModelRun(m, cs) ==
    IF cs = <<>> THEN m ELSE ModelRun(ModelCall(m, Head(cs)), Tail(cs))

(***************************************************************************)
(* Transform                                                               *)
(***************************************************************************)

\* this.reason is unset
NoReason == [msg |-> "undefined", arg |-> Absent]

\* the object `this` right after `this.printout = printout ? printout : console`
NewObject(printout) ==
    [op |-> "undefined", axis |-> "undefined", amount |-> Absent,
     model |-> FALSE, reason |-> NoReason, inverse |-> FALSE,
     printout |-> IF printout = "none" THEN "console" ELSE printout]

\* a constructor call that returns `this`
Returned(this) == [thrown |-> FALSE, obj |-> this]

\* a constructor call that throws a TypeError: no object reaches the caller
Threw(this) == [thrown |-> TRUE, obj |-> this]

\* FloorAmount with the y bound used for z as well
FloorAmountRepeatsY(axis, m) ==
    IF axis = "all"
    THEN Triple(Neg(ModelMin(m, "x")), Neg(ModelMin(m, "y")), Neg(ModelMin(m, "y")))
    ELSE Scalar(Neg(ModelMin(m, axis)))

\* case "floor": amount = -1 * model.<axis>min
FloorAmount(axis, m) ==
    IF axis = "all"
    THEN Triple(Neg(ModelMin(m, "x")), Neg(ModelMin(m, "y")), Neg(ModelMin(m, "z")))
    ELSE Scalar(Neg(ModelMin(m, axis)))

\* case "center": amount = -1 * model.getCenter<axis>()
CenterAmount(axis, m) ==
    IF axis = "all"
    THEN Triple(Neg(ModelCenter(m, "x")), Neg(ModelCenter(m, "y")),
                Neg(ModelCenter(m, "z")))
    ELSE Scalar(Neg(ModelCenter(m, axis)))

\* isBadScale with < in place of <=: a zero amount passes
isBadScaleStrict(amount) ==
    \/ (LeqZero(AsNumber(amount)) /\ AsNumber(amount) # N(0))
    \/ /\ HasLength(amount)
       /\ \E i \in 0..2 : LeqZero(Index(amount, i)) /\ Index(amount, i) # N(0)

\* amount<=0 || (amount.length && (amount[0]<=0 || amount[1]<=0 || amount[2]<=0))
\* (evaluated only when reading amount.length does not throw)
isBadScale(amount) ==
    \/ LeqZero(AsNumber(amount))
    \/ /\ HasLength(amount)
       /\ \/ LeqZero(Index(amount, 0))
          \/ LeqZero(Index(amount, 1))
          \/ LeqZero(Index(amount, 2))

\* whether evaluating isBadScale throws: amount<=0 is false for undefined,
\* so amount.length is read on undefined
isBadScaleThrows(amount) ==
    ~LeqZero(AsNumber(amount)) /\ PropertyThrows(amount)

\* "Cannot scale by 0 or negative numbers: " + amount
BadScaleReason(amount) ==
    [msg |-> "Cannot scale by 0 or negative numbers: ", arg |-> amount]

NoModelReason == [msg |-> "Model doesn't exist.", arg |-> Absent]

\* case "scale" of the constructor
ScaleCase(this, axis, amount) ==
    IF isBadScaleThrows(amount) THEN Threw(this)
    ELSE IF isBadScale(amount)
    THEN Returned([this EXCEPT !.op = "noop", !.reason = BadScaleReason(amount)])
    ELSE Returned([this EXCEPT !.op = "scale", !.axis = axis, !.amount = amount])

\* OpSwitch with a default case that turns an unknown op into a noop
OpSwitchRejectsUnknown(this, op, axis, amount, m) ==
    CASE op = "floor" ->
           Returned([this EXCEPT !.op = "translate", !.axis = axis,
                                 !.amount = FloorAmount(axis, m)])
      [] op = "center" ->
           Returned([this EXCEPT !.op = "translate", !.axis = axis,
                                 !.amount = CenterAmount(axis, m)])
      [] op = "translate" ->
           Returned([this EXCEPT !.op = "translate", !.axis = axis, !.amount = amount])
      [] op = "rotate" ->
           Returned([this EXCEPT !.op = "rotate", !.axis = axis, !.amount = amount])
      [] op = "scale" -> ScaleCase(this, axis, amount)
      [] op = "toggleWireframe" -> Returned([this EXCEPT !.op = "toggleWireframe"])
      [] OTHER -> Returned([this EXCEPT !.op = "noop", !.reason = NoModelReason])

\* the switch (op) of the constructor, entered with this.model set
OpSwitch(this, op, axis, amount, m) ==
    CASE op = "floor" ->
           Returned([this EXCEPT !.op = "translate", !.axis = axis,
                                 !.amount = FloorAmount(axis, m)])
      [] op = "center" ->
           Returned([this EXCEPT !.op = "translate", !.axis = axis,
                                 !.amount = CenterAmount(axis, m)])
      [] op = "translate" ->
           Returned([this EXCEPT !.op = "translate", !.axis = axis, !.amount = amount])
      [] op = "rotate" ->
           Returned([this EXCEPT !.op = "rotate", !.axis = axis, !.amount = amount])
      [] op = "scale" -> ScaleCase(this, axis, amount)
      [] op = "toggleWireframe" -> Returned([this EXCEPT !.op = "toggleWireframe"])
      [] OTHER -> Returned(this)

\* Transform with the scale validation run before the model check
TransformValidatesFirst(op, axis, amount, model, printout, m) ==
    IF op = "scale" /\ ~isBadScaleThrows(amount) /\ isBadScale(amount)
    THEN ScaleCase([NewObject(printout) EXCEPT !.model = model], axis, amount)
    ELSE IF ~model
    THEN Returned([NewObject(printout) EXCEPT !.op = "noop", !.reason = NoModelReason])
    ELSE OpSwitch([NewObject(printout) EXCEPT !.model = TRUE], op, axis, amount, m)

\* new Transform(op, axis, amount, model, printout); model is TRUE when the
\* model argument is present, m is that model's state
Transform(op, axis, amount, model, printout, m) ==
    IF ~model
    THEN Returned([NewObject(printout) EXCEPT !.op = "noop", !.reason = NoModelReason])
    ELSE OpSwitch([NewObject(printout) EXCEPT !.model = TRUE], op, axis, amount, m)

\* the amount makeInverse() computes for a scale Transform
ScaleInverseAmount(t) ==
    IF t.axis = "all"
    THEN Triple(Recip(Index(t.amount, 0)), Recip(Index(t.amount, 1)),
                Recip(Index(t.amount, 2)))
    ELSE Scalar(Recip(AsNumber(t.amount)))

\* NegatedAmount that leaves the components of a triple as they are
NegatedAmountScalarOnly(t) ==
    IF t.axis = "all"
    THEN Triple(Index(t.amount, 0), Index(t.amount, 1), Index(t.amount, 2))
    ELSE Scalar(Neg(AsNumber(t.amount)))

\* the amount makeInverse() computes for translations and rotations
NegatedAmount(t) ==
    IF t.axis = "all"
    THEN Triple(Neg(Index(t.amount, 0)), Neg(Index(t.amount, 1)),
                Neg(Index(t.amount, 2)))
    ELSE Scalar(Neg(AsNumber(t.amount)))

\* var amount of makeInverse()
InverseAmount(t) ==
    IF t.op = "scale" THEN ScaleInverseAmount(t) ELSE NegatedAmount(t)

\* this.amount[i] is read (and throws on undefined) only when axis == "all"
InverseAmountThrows(t) == t.axis = "all" /\ PropertyThrows(t.amount)

\* inv.inverse = true
MarkInverse(inv) == [inv EXCEPT !.inverse = TRUE]

\* makeInverse without the early return for a noop
makeInverseOfNoop(t, m) ==
    IF InverseAmountThrows(t) THEN [thrown |-> TRUE, ret |-> <<>>]
    ELSE LET r == Transform(t.op, t.axis, InverseAmount(t), t.model, "none", m)
         IN  IF r.thrown THEN [thrown |-> TRUE, ret |-> <<>>]
             ELSE [thrown |-> FALSE, ret |-> <<MarkInverse(r.obj)>>]

\* makeInverse that takes the amount of a translation from the Model's
\* current minimum instead of the receiver's stored amount
makeInverseFromModel(t, m) ==
    IF t.op = "noop" THEN [thrown |-> FALSE, ret |-> <<>>]
    ELSE IF InverseAmountThrows(t) THEN [thrown |-> TRUE, ret |-> <<>>]
    ELSE LET amount == IF t.op = "translate"
                       THEN NegatedAmount([t EXCEPT !.amount = FloorAmount(t.axis, m)])
                       ELSE InverseAmount(t)
             r == Transform(t.op, t.axis, amount, t.model, "none", m)
         IN  IF r.thrown THEN [thrown |-> TRUE, ret |-> <<>>]
             ELSE [thrown |-> FALSE, ret |-> <<MarkInverse(r.obj)>>]

\* t.makeInverse(): ret is <<>> for null and <<inv>> for a Transform
makeInverse(t, m) ==
    IF t.op = "noop" THEN [thrown |-> FALSE, ret |-> <<>>]
    ELSE IF InverseAmountThrows(t) THEN [thrown |-> TRUE, ret |-> <<>>]
    ELSE LET r == Transform(t.op, t.axis, InverseAmount(t), t.model, "none", m)
         IN  IF r.thrown THEN [thrown |-> TRUE, ret |-> <<>>]
             ELSE [thrown |-> FALSE, ret |-> <<MarkInverse(r.obj)>>]

\* one invocation of a Model primitive
Call(prim, axis, amt) == [prim |-> prim, axis |-> axis, amt |-> amt]

\* var axisOrder = this.inverse ? ["z","y","x"] : ["x","y","z"]
axisOrder(t) == IF t.inverse THEN <<"z", "y", "x">> ELSE <<"x", "y", "z">>

\* case "translate" of apply()
TranslateCalls(t) ==
    IF t.axis = "all"
    THEN << Call("translate", "x", Scalar(Index(t.amount, 0))),
            Call("translate", "y", Scalar(Index(t.amount, 1))),
            Call("translate", "z", Scalar(Index(t.amount, 2))) >>
    ELSE << Call("translate", t.axis, t.amount) >>

\* case "rotate" of apply()
RotateCalls(t) ==
    IF t.axis = "all"
    THEN << Call("rotate", axisOrder(t)[1], Scalar(Index(t.amount, 0))),
            Call("rotate", axisOrder(t)[2], Scalar(Index(t.amount, 1))),
            Call("rotate", axisOrder(t)[3], Scalar(Index(t.amount, 2))) >>
    ELSE << Call("rotate", t.axis, t.amount) >>

\* ScaleCalls that gives each axis its own component of a triple
ScaleCallsPerAxis(t) ==
    IF t.axis = "all"
    THEN << Call("scale", "x", Scalar(Index(t.amount, 0))),
            Call("scale", "y", Scalar(Index(t.amount, 1))),
            Call("scale", "z", Scalar(Index(t.amount, 2))) >>
    ELSE << Call("scale", t.axis, t.amount) >>

\* case "scale" of apply()
ScaleCalls(t) ==
    IF t.axis = "all"
    THEN << Call("scale", "x", Scalar(Index(t.amount, 0))),
            Call("scale", "y", Scalar(Index(t.amount, 0))),
            Call("scale", "z", Scalar(Index(t.amount, 0))) >>
    ELSE << Call("scale", t.axis, t.amount) >>

\* the Model primitives apply() invokes, in order
applyCalls(t) ==
    CASE t.op = "translate" -> TranslateCalls(t)
      [] t.op = "rotate" -> RotateCalls(t)
      [] t.op = "scale" -> ScaleCalls(t)
      [] t.op = "toggleWireframe" -> << Call("toggleWireframe", "undefined", Absent) >>
      [] OTHER -> << >>

\* apply() throws when it reads this.amount[i] on an undefined amount,
\* which happens before the first primitive is invoked
applyThrows(t) ==
    t.op \in {"translate", "rotate", "scale"} /\ t.axis = "all" /\ PropertyThrows(t.amount)

\* this.printout.warn(this.reason)
Warn(sink, reason) == [sink |-> sink, reason |-> reason]

\* the warnings apply() emits
applyWarns(t) == IF t.op = "noop" THEN << Warn(t.printout, t.reason) >> ELSE << >>

\* t.apply(): the primitives invoked, the warnings emitted, whether it threw
apply(t) ==
    IF applyThrows(t) THEN [thrown |-> TRUE, calls |-> << >>, warns |-> << >>]
    ELSE [thrown |-> FALSE, calls |-> applyCalls(t), warns |-> applyWarns(t)]

\* t.setAmount(amount)
setAmount(t, amount) == [t EXCEPT !.amount = amount]

(***************************************************************************)
(* UndoStack.  A history entry is the pushed Transform t together with a   *)
(* tag the stack never reads: the number of the push() call that stored it *)
(* (id), the number of clear() calls made before it (epoch) and the        *)
(* Model's state before the forward transform was applied (before).        *)
(***************************************************************************)

\* the printout the UndoStack was constructed with
StackPrintout == "sink"

NoHistoryReason == [msg |-> "No undo history available.", arg |-> Absent]

\* push(inv): if (inv) this.history.push(inv)
push(h, x, tag) == IF x # << >> THEN Append(h, [t |-> x[1], tag |-> tag]) ELSE h

\* pop taking the oldest entry (shift() in place of pop())
popOldest(h) == [entry |-> h[1], rest |-> SubSeq(h, 2, Len(h))]

\* this.history.pop(): the entry removed and the entries left
pop(h) == [entry |-> h[Len(h)], rest |-> SubSeq(h, 1, Len(h) - 1)]

\* clear dropping only the newest entry
clearNewest(h) == IF h = << >> THEN h ELSE SubSeq(h, 1, Len(h) - 1)

\* clear(): this.history = []
clear(h) == << >>

(***************************************************************************)
(* State                                                                   *)
(***************************************************************************)

VARIABLES
    model,      \* the Model's state
    history,    \* UndoStack.history
    cur,        \* the Transform the caller holds: << >> or <<t>>
    inv,        \* what the last makeInverse() returned: << >> (null) or <<t>>
    calls,      \* the Model primitives invoked by the last operation, in order
    warns,      \* the warnings emitted by the last operation, in order
    thrown,     \* whether the last operation threw
    last,       \* the last operation and its arguments
    popped,     \* the history entry the last undo() removed and applied
    before,     \* the Model's state before the last apply() on cur
    built,      \* the Model's state when cur was constructed
    count       \* numbers of calls made so far

vars ==
    <<model, history, cur, inv, calls, warns, thrown, last, popped, before, built,
      count>>

\* an operation and the arguments it was called with
Op(call, op, axis, amount, m) ==
    [call |-> call, op |-> op, axis |-> axis, amount |-> amount, model |-> m]

\* an operation without arguments
Op0(call) == Op(call, "undefined", "undefined", Absent, FALSE)

\* a loaded Model with bounds xmin=-2, ymin=0, zmin=5
InitModel ==
    [min |-> <<N(-2), N(0), N(5)>>, max |-> <<N(4), N(2), N(7)>>,
     orient |-> << >>, wireframe |-> FALSE]

\* another Model, lying off the origin on every axis
OtherModel ==
    [min |-> <<N(1), N(-3), N(-4)>>, max |-> <<N(2), N(-1), N(0)>>,
     orient |-> << >>, wireframe |-> TRUE]

NoCount ==
    [ctor |-> 0, steps |-> 0, push |-> 0, undo |-> 0, clear |-> 0, ticket |-> 0,
     rotall |-> 0]

\* the state after `new UndoStack(printout)` with a loaded Model m
InitWith(m) ==
    /\ model = m
    /\ history = << >>
    /\ cur = << >>
    /\ inv = << >>
    /\ calls = << >>
    /\ warns = << >>
    /\ thrown = FALSE
    /\ last = Op0("init")
    /\ popped = << >>
    /\ before = m
    /\ built = m
    /\ count = NoCount

(***************************************************************************)
(* Operations.  Each leaves `count` to the caller that performs it.        *)
(***************************************************************************)

\* cur = new Transform(op, axis, amount, model, printout)
Construct(op, axis, amount, m, printout) ==
    LET r == Transform(op, axis, amount, m, printout, model)
    IN  /\ cur' = IF r.thrown THEN << >> ELSE <<r.obj>>
        /\ thrown' = r.thrown
        /\ inv' = << >>
        /\ calls' = << >>
        /\ warns' = << >>
        /\ popped' = << >>
        /\ last' = Op("Transform", op, axis, amount, m)
        /\ built' = model
        /\ UNCHANGED <<model, history, before>>

\* the effect of t.apply() on the Model and on the observations
Applying(t) ==
    LET r == apply(t)
    IN  /\ model' = ModelRun(model, r.calls)
        /\ calls' = r.calls
        /\ warns' = r.warns
        /\ thrown' = r.thrown

\* cur.apply()
Apply ==
    /\ cur # << >>
    /\ Applying(cur[1])
    /\ before' = model
    /\ popped' = << >>
    /\ last' = Op0("apply")
    /\ UNCHANGED <<history, cur, inv, built>>

\* inv.apply(), on the Transform the last makeInverse() returned
ApplyInverse ==
    /\ inv # << >>
    /\ Applying(inv[1])
    /\ popped' = << >>
    /\ last' = Op0("applyInverse")
    /\ UNCHANGED <<history, cur, inv, before, built>>

\* inv = cur.makeInverse()
MakeInverse ==
    /\ cur # << >>
    /\ LET r == makeInverse(cur[1], model)
       IN  /\ inv' = r.ret
           /\ thrown' = r.thrown
    /\ calls' = << >>
    /\ warns' = << >>
    /\ popped' = << >>
    /\ last' = Op0("makeInverse")
    /\ UNCHANGED <<model, history, cur, before, built>>

\* inv = inv.makeInverse(): the inverse of the inverse the caller holds
InvertInverse ==
    /\ inv # << >>
    /\ LET r == makeInverse(inv[1], model)
       IN  /\ inv' = r.ret
           /\ thrown' = r.thrown
    /\ calls' = << >>
    /\ warns' = << >>
    /\ popped' = << >>
    /\ last' = Op0("invertInverse")
    /\ UNCHANGED <<model, history, cur, before, built>>

\* cur.setAmount(amount)
SetAmount(amount) ==
    /\ cur # << >>
    /\ cur' = <<setAmount(cur[1], amount)>>
    /\ thrown' = FALSE
    /\ calls' = << >>
    /\ warns' = << >>
    /\ popped' = << >>
    /\ last' = Op("setAmount", "undefined", "undefined", amount, FALSE)
    /\ UNCHANGED <<model, history, inv, before, built>>

\* undoStack.push(x) for a Transform or null x; the caller keeps no
\* reference to what it pushed (undoStack.push(t.makeInverse()))
Push(x, tag) ==
    /\ history' = push(history, x, tag)
    /\ inv' = << >>
    /\ thrown' = FALSE
    /\ calls' = << >>
    /\ warns' = << >>
    /\ popped' = << >>
    /\ last' = Op0(IF x = << >> THEN "pushNull" ELSE "push")
    /\ UNCHANGED <<model, cur, before, built>>

\* undo() returning silently on an empty history
reportNothing == << >>

\* this.printout.warn("No undo history available.")
reportEmpty == << Warn(StackPrintout, NoHistoryReason) >>

\* undoStack.undo()
Undo ==
    /\ IF Len(history) = 0
       THEN /\ warns' = reportEmpty
            /\ calls' = << >>
            /\ thrown' = FALSE
            /\ popped' = << >>
            /\ UNCHANGED <<model, history>>
       ELSE /\ history' = pop(history).rest
            /\ popped' = << pop(history).entry >>
            /\ Applying(pop(history).entry.t)
    /\ last' = Op0("undo")
    /\ UNCHANGED <<cur, inv, before, built>>

\* undoStack.clear()
Clear ==
    /\ history' = clear(history)
    /\ thrown' = FALSE
    /\ calls' = << >>
    /\ warns' = << >>
    /\ popped' = << >>
    /\ last' = Op0("clear")
    /\ UNCHANGED <<model, cur, inv, before, built>>

(***************************************************************************)
(* Inputs                                                                  *)
(***************************************************************************)

\* the op tags; "shear" stands for any tag the constructor does not know
Ops == {"floor", "center", "translate", "rotate", "scale", "toggleWireframe", "shear"}

Axes == {"x", "y", "z", "all"}

Scalars == {Scalar(N(-1)), Scalar(N(0)), Scalar(N(2))}

Triples == {Triple(N(2), N(3), N(5)), Triple(N(2), N(0), N(3))}

\* a number, a triple of numbers, or absent
Amounts == Scalars \cup Triples \cup {Triple(N(3), N(2), N(-1)), Absent}

Printouts == {"sink", "none"}

(***************************************************************************)
(* Spec: the life of one Transform.  The caller constructs a Transform     *)
(* from any arguments and then makes up to MaxSteps calls on it, on its    *)
(* inverse and on the UndoStack, in any order.                             *)
(***************************************************************************)

MaxSteps == 3

Init == \E m \in {InitModel, OtherModel} : InitWith(m)

Counted(field) == count' = [count EXCEPT ![field] = @ + 1]

Step == count.ctor = 1 /\ count.steps < MaxSteps /\ Counted("steps")

NoTag == [id |-> 0, epoch |-> 0, before |-> before]

DoConstruct ==
    /\ count.ctor = 0
    /\ \E op \in Ops, axis \in Axes, amount \in Amounts, m \in BOOLEAN, p \in Printouts :
         Construct(op, axis, amount, m, p)
    /\ Counted("ctor")

DoApply == Step /\ Apply

DoApplyInverse == Step /\ ApplyInverse

DoMakeInverse == Step /\ MakeInverse

DoInvertInverse == Step /\ InvertInverse

DoSetAmount == Step /\ \E amount \in Amounts : SetAmount(amount)

DoPush == Step /\ Push(inv, NoTag)

DoUndo == Step /\ Undo

DoClear == Step /\ Clear

Next ==
    \/ DoConstruct
    \/ DoApply
    \/ DoApplyInverse
    \/ DoMakeInverse
    \/ DoInvertInverse
    \/ DoSetAmount
    \/ DoPush
    \/ DoUndo
    \/ DoClear

Spec == Init /\ [][Next]_vars

(***************************************************************************)
(* SpecUndo: the editing session the file describes.  Each operation is    *)
(* constructed, applied, inverted and its inverse pushed (or applied at    *)
(* once); between operations the user may undo or clear.                   *)
(***************************************************************************)

MaxOps == 2

\* the arguments of well-formed constructor calls: a scalar amount with a
\* single axis, a triple with "all", none for floor, center, toggleWireframe
SessionArgs ==
    {<<op, axis, a, TRUE>> :
        op \in {"translate", "rotate", "scale"}, axis \in {"x", "y", "z"},
        a \in {Scalar(N(-1)), Scalar(N(2))}}
    \cup {<<op, "all", a, TRUE>> : op \in {"translate", "rotate", "scale"}, a \in Triples}
    \cup {<<op, axis, Absent, TRUE>> : op \in {"floor", "center"}, axis \in Axes}
    \cup {<<"toggleWireframe", "undefined", Absent, TRUE>>,
          <<"shear", "x", Scalar(N(2)), TRUE>>,
          <<"translate", "x", Scalar(N(2)), FALSE>>}

InitUndo == InitWith(InitModel)

\* no operation is under way
Idle == last.call \notin {"Transform", "apply", "makeInverse"}

IsRotateAll(a) == a[1] = "rotate" /\ a[2] = "all" /\ a[4]

SessionConstruct ==
    /\ Idle
    /\ count.ctor < MaxOps
    /\ \E a \in SessionArgs :
         /\ Construct(a[1], a[2], a[3], a[4], "sink")
         /\ count' = [count EXCEPT !.ctor = @ + 1,
                                   !.rotall = IF IsRotateAll(a) THEN @ + 1 ELSE @]

SessionApply == last.call = "Transform" /\ Apply /\ UNCHANGED count

SessionMakeInverse == last.call = "apply" /\ MakeInverse /\ UNCHANGED count

\* undoStack.push(t.makeInverse())
SessionPush ==
    /\ last.call = "makeInverse"
    /\ Push(inv, [id |-> count.ticket + 1, epoch |-> count.clear, before |-> before])
    /\ count' = IF inv = << >> THEN count
                ELSE [count EXCEPT !.push = @ + 1, !.ticket = @ + 1]

\* t.makeInverse().apply()
SessionApplyInverse ==
    /\ last.call = "makeInverse"
    /\ ApplyInverse
    /\ UNCHANGED count

SessionUndo ==
    /\ Idle
    /\ Undo
    /\ count' = IF history = << >> THEN count ELSE [count EXCEPT !.undo = @ + 1]

\* (clear() on an empty history is left to SpecStack)
SessionClear ==
    /\ Idle
    /\ history # << >>
    /\ Clear
    /\ count' = [count EXCEPT !.clear = @ + 1, !.push = 0, !.undo = 0]

NextUndo ==
    \/ SessionConstruct
    \/ SessionApply
    \/ SessionMakeInverse
    \/ SessionPush
    \/ SessionApplyInverse
    \/ SessionUndo
    \/ SessionClear

SpecUndo == InitUndo /\ [][NextUndo]_vars

(***************************************************************************)
(* SpecStack: one UndoStack under any interleaving of push(), undo() and   *)
(* clear(), the pushed values being null or one of three inverses.         *)
(***************************************************************************)

MaxPush == 3

MaxClear == 1

\* new Transform(op, axis, amount, model).makeInverse() on the initial Model
InverseOf(op, axis, amount) ==
    makeInverse(Transform(op, axis, amount, TRUE, "sink", InitModel).obj, InitModel).ret

\* inv1, inv2, inv3 and null
Pushable ==
    { InverseOf("translate", "x", Scalar(N(2))),
      InverseOf("scale", "all", Triple(N(2), N(3), N(5))),
      InverseOf("rotate", "z", Scalar(N(2))),
      << >> }

InitStack == InitWith(InitModel)

StackPush ==
    /\ count.ticket < MaxPush
    /\ \E x \in Pushable :
         /\ Push(x, [id |-> count.ticket + 1, epoch |-> count.clear, before |-> before])
         /\ count' = IF x = << >> THEN [count EXCEPT !.ticket = @ + 1]
                     ELSE [count EXCEPT !.push = @ + 1, !.ticket = @ + 1]

StackUndo ==
    /\ Undo
    /\ count' = IF history = << >> THEN count ELSE [count EXCEPT !.undo = @ + 1]

StackClear ==
    /\ count.clear < MaxClear
    /\ Clear
    /\ count' = [count EXCEPT !.clear = @ + 1, !.push = 0, !.undo = 0]

NextStack == StackPush \/ StackUndo \/ StackClear

SpecStack == InitStack /\ [][NextStack]_vars

(***************************************************************************)
(* SpecFloor: a floor Transform is constructed and applied once, while     *)
(* undo() applies translations pushed earlier, at any point before or      *)
(* after the construction.                                                 *)
(***************************************************************************)

\* the inverses of a translation along x and of one along y, on x, y and z
Translations ==
    { InverseOf("translate", "x", Scalar(N(2))),
      InverseOf("translate", "y", Scalar(N(-1))),
      InverseOf("translate", "all", Triple(N(2), N(3), N(5))) }

InitFloor == InitWith(InitModel)

FloorPush ==
    /\ count.ticket < MaxPush
    /\ \E x \in Translations :
         Push(x, [id |-> count.ticket + 1, epoch |-> count.clear, before |-> before])
    /\ count' = [count EXCEPT !.push = @ + 1, !.ticket = @ + 1]

FloorConstruct ==
    /\ count.ctor = 0
    /\ \E axis \in Axes : Construct("floor", axis, Absent, TRUE, "sink")
    /\ Counted("ctor")

FloorUndo ==
    /\ history # << >>
    /\ Undo
    /\ Counted("undo")

FloorApply ==
    /\ count.steps = 0
    /\ Apply
    /\ Counted("steps")

NextFloor == FloorPush \/ FloorConstruct \/ FloorUndo \/ FloorApply

SpecFloor == InitFloor /\ [][NextFloor]_vars

(***************************************************************************)
(* Properties                                                              *)
(***************************************************************************)

\* the Transform the caller holds is an all-axis rotation
HoldsRotateAll == cur # << >> /\ cur[1].op = "rotate" /\ cur[1].axis = "all"

\* C1: applying an all-axis rotate Transform and then the Transform its
\* makeInverse() returned leaves the Model's orientation as it was before
\* the forward apply().
C1_InverseRestoresOrientation ==
    (last.call = "applyInverse" /\ HoldsRotateAll) => model.orient = before.orient

\* an undo() step that found an entry has just been taken
Undone == last.call = "undo" /\ popped # << >>

\* C2: in a session without all-axis rotations, each undo() that finds an
\* entry puts the Model back in the state it had just before the apply()
\* whose inverse that entry is, and with the history empty (and never
\* cleared) the Model is in its initial state.
C2_UndoRestores ==
    (count.rotall = 0 /\ Idle) =>
        /\ Undone => model = popped[1].tag.before
        /\ (history = << >> /\ count.clear = 0) => model = InitModel

\* two operations, the first an all-axis scale, have both been undone
C2_Witness ==
    /\ Undone
    /\ count.rotall = 0
    /\ count.clear = 0
    /\ count.undo = 2
    /\ history = << >>
    /\ popped[1].t.op = "scale"
    /\ popped[1].t.axis = "all"
    /\ model = InitModel

\* entry e is in history h
InHistory(e, h) == \E i \in DOMAIN h : h[i] = e

\* the step is an undo() on a non-empty history
UndoTaken == last'.call = "undo" /\ history # << >>

\* C3: each undo() on a non-empty history removes the most recently pushed
\* entry still in the history, applies it once, and leaves the other
\* entries and their order unchanged.
C3_UndoIsLifo ==
    [][UndoTaken =>
        /\ popped' # << >>
        /\ InHistory(popped'[1], history)
        /\ \A i \in DOMAIN history : history[i].tag.id <= popped'[1].tag.id
        /\ history' = SelectSeq(history, LAMBDA e : e # popped'[1])
        /\ calls' = applyCalls(popped'[1].t)
        /\ model' = ModelRun(model, calls')
      ]_vars

\* inv1, inv2, inv3 were pushed and three undo() calls applied inv3, inv2
\* and, last, inv1
C3_Witness ==
    /\ Undone
    /\ count.push = 3
    /\ count.undo = 3
    /\ count.ticket = 3
    /\ popped[1].tag.id = 1
    /\ history = << >>

\* C4: no operation throws.
C4_NothingThrows == ~thrown

\* an amount that is a number <= 0, or a triple with a component <= 0
NonPositive(amount) ==
    \E i \in DOMAIN amount : amount[i].k = "num" /\ amount[i].n <= 0

\* the Transform the caller holds was rejected by the scale validation
HoldsRejectedScale == cur # << >> /\ cur[1].op = "noop" /\ cur[1].model

\* C5: with a model, constructing a scale Transform yields a noop with a
\* non-empty reason when the amount, or a component of it, is <= 0 and a
\* scale Transform storing the amount otherwise; apply() on the rejected
\* Transform invokes no primitive and warns once, with that reason.
C5_ScaleValidation ==
    /\ (last.call = "Transform" /\ last.op = "scale" /\ last.model
            /\ last.amount # Absent) =>
          /\ ~thrown
          /\ cur # << >>
          /\ IF NonPositive(last.amount)
             THEN /\ cur[1].op = "noop"
                  /\ cur[1].reason # NoReason
                  /\ cur[1].reason.msg # ""
             ELSE /\ cur[1].op = "scale"
                  /\ cur[1].amount = last.amount
    /\ (last.call = "apply" /\ HoldsRejectedScale) =>
          /\ calls = << >>
          /\ model = before
          /\ warns = << Warn(cur[1].printout, cur[1].reason) >>
          /\ ~thrown

\* apply() has run on a scale Transform rejected for a zero component
C5_Witness ==
    /\ last.call = "apply"
    /\ HoldsRejectedScale
    /\ cur[1].reason.arg = Triple(N(2), N(0), N(3))
    /\ Len(warns) = 1

\* C6: without a model the constructor yields a noop with the reason
\* "Model doesn't exist." whatever the other arguments, and apply() on it
\* invokes no primitive.
C6_NoModel ==
    /\ (last.call = "Transform" /\ ~last.model) =>
          /\ ~thrown
          /\ cur # << >>
          /\ cur[1].op = "noop"
          /\ cur[1].reason.msg = "Model doesn't exist."
          /\ cur[1].reason.arg = Absent
    /\ (last.call = "apply" /\ cur # << >> /\ ~cur[1].model) =>
          /\ calls = << >>
          /\ model = before

\* a scale by zero was constructed without a model
C6_Witness ==
    /\ last.call = "Transform"
    /\ ~last.model
    /\ last.op = "scale"
    /\ last.amount = Scalar(N(0))
    /\ cur # << >>
    /\ cur[1].op = "noop"

\* the Transform the caller holds is a noop
HoldsNoop == cur # << >> /\ cur[1].op = "noop"

\* C7: the history holds as many entries as there were push() calls with a
\* non-null argument minus undo() calls on a non-empty history since the
\* last clear(); makeInverse() on a noop returns null, and pushing it
\* leaves the history unchanged.
C7_HistoryCount ==
    /\ [](Len(history) = count.push - count.undo)
    /\ []((last.call = "makeInverse" /\ HoldsNoop) => (inv = << >> /\ ~thrown))
    /\ [][(last.call = "makeInverse" /\ HoldsNoop) => history' = history]_vars

\* after one recorded operation, a rejected one was applied and its (null)
\* inverse pushed
C7_Witness ==
    /\ last.call = "pushNull"
    /\ HoldsNoop
    /\ Len(history) = 1
    /\ count.push = 1

\* the step is an undo() on an empty history
UndoOnEmpty == last'.call = "undo" /\ history = << >>

\* the step reports "No undo history available." once and changes nothing
ReportsEmpty ==
    /\ Len(warns') = 1
    /\ warns'[1].sink = StackPrintout
    /\ warns'[1].reason.msg = "No undo history available."
    /\ history' = << >>
    /\ calls' = << >>
    /\ model' = model
    /\ ~thrown'

\* C8: undo() on an empty history warns "No undo history available." once,
\* leaves the history empty, invokes no primitive and does not throw.
C8_UndoOnEmpty == [][UndoOnEmpty => ReportsEmpty]_vars

\* undo() was called once more after every pushed entry had been undone
C8_Witness ==
    /\ last.call = "undo"
    /\ popped = << >>
    /\ Len(warns) = 1
    /\ count.push = 2
    /\ count.undo = 2

\* C9: clear() empties the history and invokes no primitive; until a
\* non-null entry is pushed every undo() reports empty history and changes
\* nothing; no entry pushed before a clear() is applied after it.
C9_ClearDiscards ==
    /\ [][last'.call = "clear" =>
            (history' = << >> /\ calls' = << >> /\ model' = model /\ ~thrown')]_vars
    /\ [][(count.clear > 0 /\ count.push = 0 /\ last'.call = "undo") =>
            (ReportsEmpty /\ popped' = << >>)]_vars
    /\ [](popped # << >> => popped[1].tag.epoch = count.clear)

\* two entries were pushed and cleared, null was pushed, and undo() then
\* reported empty history
C9_Witness ==
    /\ last.call = "undo"
    /\ count.clear = 1
    /\ count.push = 0
    /\ count.ticket = 3
    /\ Len(warns) = 1
    /\ popped = << >>

\* C10: with a model, op "floor" yields a translate Transform on the given
\* axis whose amount is the negation of the minimum bound(s) the Model has
\* at construction: bounds (-2, 0, 5) give [2, 0, -5].
C10_FloorAmount ==
    (last.call = "Transform" /\ last.op = "floor" /\ last.model) =>
        /\ ~thrown
        /\ cur # << >>
        /\ cur[1].op = "translate"
        /\ cur[1].axis = last.axis
        /\ IF last.axis = "all"
           THEN /\ Len(cur[1].amount) = 3
                /\ \A i \in 1..3 : Add(cur[1].amount[i], model.min[i]) = N(0)
                /\ model.min = <<N(-2), N(0), N(5)>> =>
                      cur[1].amount = <<N(2), N(0), N(-5)>>
           ELSE /\ Len(cur[1].amount) = 1
                /\ Add(cur[1].amount[1], model.min[AxisIx(last.axis)]) = N(0)

\* floor on all axes of the Model with bounds (-2, 0, 5)
C10_Witness ==
    /\ last.call = "Transform"
    /\ last.op = "floor"
    /\ last.axis = "all"
    /\ last.model
    /\ model.min = <<N(-2), N(0), N(5)>>
    /\ cur = << [NewObject("sink") EXCEPT !.op = "translate", !.axis = "all",
                    !.model = TRUE, !.amount = <<N(2), N(0), N(-5)>>] >>

\* the three rotate calls along the axes ax, each with the component of the
\* triple amount that belongs to that axis
OwnComponentCalls(ax, amount) ==
    [i \in 1..3 |-> Call("rotate", ax[i], Scalar(amount[AxisIx(ax[i])]))]

\* C11: apply() of an all-axis rotate Transform holding a triple calls
\* rotate exactly three times: along x, y, z when the inverse flag is unset
\* and along z, y, x when it is set, each axis with its own component of
\* the triple.
C11_RotateOwnComponent ==
    /\ (last.call = "apply" /\ HoldsRotateAll /\ IsArray(cur[1].amount)) =>
          calls = OwnComponentCalls(
                      IF cur[1].inverse THEN <<"z", "y", "x">> ELSE <<"x", "y", "z">>,
                      cur[1].amount)
    /\ (last.call = "applyInverse" /\ inv # << >> /\ inv[1].op = "rotate"
            /\ inv[1].axis = "all" /\ IsArray(inv[1].amount)) =>
          calls = OwnComponentCalls(
                      IF inv[1].inverse THEN <<"z", "y", "x">> ELSE <<"x", "y", "z">>,
                      inv[1].amount)

\* the caller holds a Transform that is not a noop
HoldsNonNoop == cur # << >> /\ cur[1].op # "noop"

\* C12: makeInverse() on a Transform that is not a noop returns a Transform
\* with the same op, axis and model, the inverse flag set, and as amount the
\* negation (translate, rotate) or the reciprocal (scale) of the receiver's
\* amount, component by component when that amount is a triple.
C12_InverseOfNonNoop ==
    (last.call = "makeInverse" /\ HoldsNonNoop) =>
        /\ ~thrown
        /\ inv # << >>
        /\ inv[1].op = cur[1].op
        /\ inv[1].axis = cur[1].axis
        /\ inv[1].model = cur[1].model
        /\ inv[1].inverse
        /\ cur[1].op \in {"translate", "rotate"} =>
              inv[1].amount = [i \in DOMAIN cur[1].amount |-> Neg(cur[1].amount[i])]
        /\ cur[1].op = "scale" =>
              inv[1].amount = [i \in DOMAIN cur[1].amount |-> Recip(cur[1].amount[i])]

\* the amount, negated component by component
Negated(amount) == [i \in DOMAIN amount |-> Neg(amount[i])]

\* C13: makeInverse() calls no Model primitive and leaves the Model, the
\* receiver and the history as they were; the inverse of a translation,
\* floor- and center-built ones included, is computed from the amount the
\* receiver stores, whatever the Model's bounds are by then.
C13_MakeInverseReadsOnly ==
    /\ [][last'.call = "makeInverse" =>
             /\ calls' = << >>
             /\ model' = model
             /\ cur' = cur
             /\ history' = history]_vars
    /\ []((last.call = "makeInverse" /\ cur # << >> /\ cur[1].op = "translate") =>
             /\ inv # << >>
             /\ inv[1].amount = Negated(cur[1].amount))

\* with one entry in the history, a floor on all axes built on the initial
\* Model was applied, moving the minimum, and then inverted
C13_Witness ==
    /\ last.call = "makeInverse"
    /\ Len(history) = 1
    /\ built.min = <<N(-2), N(0), N(5)>>
    /\ model.min = <<N(0), N(0), N(0)>>
    /\ cur # << >>
    /\ cur[1].amount = <<N(2), N(0), N(-5)>>
    /\ inv # << >>
    /\ inv[1].amount = <<N(-2), N(0), N(5)>>
    /\ calls = << >>

\* a single number or a triple whose components are all numbers above zero
StrictlyPositive(amount) ==
    \A i \in DOMAIN amount : amount[i].k = "num" /\ amount[i].n > 0

\* C14: after any sequence of constructor calls, makeInverse() and
\* setAmount(), every Transform whose op is scale carries a strictly
\* positive amount, and the inverse of a scale Transform is a scale
\* Transform, never a noop.
C14_ScaleStaysPositive ==
    /\ (cur # << >> /\ cur[1].op = "scale") => StrictlyPositive(cur[1].amount)
    /\ (inv # << >> /\ inv[1].op = "scale") => StrictlyPositive(inv[1].amount)
    /\ (last.call = "makeInverse" /\ cur # << >> /\ cur[1].op = "scale") =>
          (~thrown /\ inv # << >> /\ inv[1].op = "scale")

\* the amount of t has the shape its axis calls for
ShapeMatchesAxis(t) ==
    /\ t.axis = "all" => IsArray(t.amount)
    /\ t.axis \in {"x", "y", "z"} => (~IsArray(t.amount) /\ t.amount[1].k # "undef")

\* C15: every Transform that is not a noop and has axis "all" carries a
\* triple as amount, and every Transform with axis x, y or z carries a
\* single scalar, whatever was passed to the constructor and to setAmount().
C15_AmountShape ==
    /\ (cur # << >> /\ cur[1].op # "noop") => ShapeMatchesAxis(cur[1])
    /\ (inv # << >> /\ inv[1].op # "noop") => ShapeMatchesAxis(inv[1])

\* the three scale calls along x, y and z, all with the amount a
UniformScaleCalls(a) ==
    << Call("scale", "x", Scalar(a)), Call("scale", "y", Scalar(a)),
       Call("scale", "z", Scalar(a)) >>

\* t is a scale Transform on all axes holding a triple
IsScaleAll(t) == t.op = "scale" /\ t.axis = "all" /\ IsArray(t.amount)

\* C16: apply() of an all-axis scale Transform holding (a0, a1, a2) calls
\* scale exactly three times, along x, y, z in that order and each time
\* with a0; the inverse, holding the reciprocals, applies 1/a0 along all
\* three axes (whenever that inverse is itself a scale Transform).
C16_ScaleAllUsesFirst ==
    /\ (last.call = "apply" /\ cur # << >> /\ IsScaleAll(cur[1])) =>
          calls = UniformScaleCalls(cur[1].amount[1])
    /\ (last.call = "makeInverse" /\ cur # << >> /\ IsScaleAll(cur[1])
            /\ inv # << >> /\ IsScaleAll(inv[1])) =>
          inv[1].amount[1] = Recip(cur[1].amount[1])
    /\ (last.call = "applyInverse" /\ inv # << >> /\ IsScaleAll(inv[1])) =>
          calls = UniformScaleCalls(inv[1].amount[1])

\* the inverse of an all-axis scale by (2, 3, 5) scaled all three axes by 1/2
C16_Witness ==
    /\ last.call = "applyInverse"
    /\ cur # << >>
    /\ IsScaleAll(cur[1])
    /\ cur[1].amount = Triple(N(2), N(3), N(5))
    /\ inv # << >>
    /\ inv[1].amount = Triple(Q(1, 2), Q(1, 3), Q(1, 5))
    /\ calls = UniformScaleCalls(Q(1, 2))

\* the indices of the axes a Transform with this axis acts on
AxesOf(axis) == IF axis = "all" THEN 1..3 ELSE {AxisIx(axis)}

\* the floor Transform the caller constructed has just been applied
FloorApplied ==
    /\ last.call = "apply"
    /\ count.ctor = 1
    /\ cur # << >>
    /\ cur[1].op = "translate"

\* C17: apply() of a Transform constructed with op floor leaves the Model's
\* minimum along its axis (all three for "all") at zero, also when other
\* translations were applied between its construction and its apply().
C17_FloorReachesZero ==
    FloorApplied => \A i \in AxesOf(cur[1].axis) : model.min[i] = N(0)

\* C17 (amended): apply() of a Transform constructed with op floor leaves
\* the Model's minimum along its axis (all three for "all") at zero when,
\* just before the apply(), that minimum is what it was at construction.
C17_FloorReachesZeroIfUnmoved ==
    FloorApplied =>
        \A i \in AxesOf(cur[1].axis) :
            before.min[i] = built.min[i] => model.min[i] = N(0)

\* a floor along x was applied after undo() had moved the Model along y only
C17_Witness ==
    /\ FloorApplied
    /\ cur[1].axis = "x"
    /\ built.min = <<N(-2), N(0), N(5)>>
    /\ before.min = <<N(-2), N(1), N(5)>>
    /\ model.min = <<N(0), N(1), N(5)>>

\* the inverse the caller holds is cur.makeInverse().makeInverse()
HoldsDoubleInverse ==
    /\ cur # << >>
    /\ inv # << >>
    /\ LET once == makeInverse(cur[1], model)
       IN  /\ ~once.thrown
           /\ once.ret # << >>
           /\ LET twice == makeInverse(once.ret[1], model)
              IN  ~twice.thrown /\ inv = twice.ret

\* C18: for a Transform t that is not a noop (a translate, rotate or scale
\* along one axis with a scalar or along all axes with a triple, or a
\* toggleWireframe), apply() of t.makeInverse().makeInverse() invokes the
\* same Model primitives as apply() of t, on the same axes, with the same
\* amounts, in the same order.
C18_DoubleInverseReplays ==
    (last.call = "applyInverse" /\ HoldsNonNoop /\ ShapeMatchesAxis(cur[1])
        /\ HoldsDoubleInverse) =>
        (~thrown /\ calls = applyCalls(cur[1]))

\* the ops the constructor's switch has a case for
KnownOps == {"floor", "center", "translate", "rotate", "scale", "toggleWireframe"}

\* the caller holds a Transform built from an op the switch does not know
HoldsUnknownOp == cur # << >> /\ cur[1].op = "undefined"

\* C19: a Transform constructed with a model and an op the switch does not
\* know is not a noop: apply() invokes no primitive and warns nothing,
\* makeInverse() returns a Transform, push() records it, and the undo()
\* that finds it removes one entry, leaves the Model alone and reports
\* nothing.
C19_UnknownOpIsRecorded ==
    /\ []((last.call = "Transform" /\ last.op \notin KnownOps /\ last.model) =>
             (~thrown /\ cur # << >> /\ cur[1].op # "noop"))
    /\ []((last.call = "apply" /\ HoldsUnknownOp) =>
             (~thrown /\ calls = << >> /\ warns = << >> /\ model = before))
    /\ []((last.call = "makeInverse" /\ HoldsUnknownOp) =>
             (~thrown /\ inv # << >> /\ inv[1].op = "undefined"))
    /\ [][(last.call = "makeInverse" /\ HoldsUnknownOp
                /\ last'.call \in {"push", "pushNull"}) =>
             /\ last'.call = "push"
             /\ Len(history') = Len(history) + 1
             /\ history'[Len(history')].t = inv[1]]_vars
    /\ [][(UndoTaken /\ popped' # << >> /\ popped'[1].t.op = "undefined") =>
             /\ Len(history') = Len(history) - 1
             /\ model' = model
             /\ calls' = << >>
             /\ warns' = << >>
             /\ ~thrown']_vars

\* of two recorded operations the second, with an unknown op, was undone
C19_Witness ==
    /\ Undone
    /\ popped[1].t.op = "undefined"
    /\ popped[1].t.inverse
    /\ Len(history) = 1
    /\ calls = << >>
    /\ warns = << >>
    /\ model = popped[1].tag.before

=============================================================================
